---- MODULE Spec2Model ----
(***************************************************************************)
(* Music_Syncer: sync_music_advanced_fixed.py as a state machine.          *)
(*                                                                         *)
(* A run of main(): the two endpoint trees are indexed (list_files), the   *)
(* indexes are planned (plan_sync) and the plan is executed action by      *)
(* action (the for loop of main), with the hash cache consulted where the  *)
(* code consults it.  External operations that can fail (the remote        *)
(* existence test, hashing, a copy, a playlist write, a delete, the batch  *)
(* stat of a remote listing) fail nondeterministically.                    *)
(*                                                                         *)
(* Paths are sequences of tokens (each token a piece of text), so that     *)
(* lower_key, os.path.splitext, the duplicate-name construction and the    *)
(* sorted() order of keys are computed, not assumed.  All tokens are ASCII *)
(* so nfc() leaves every path of the model unchanged.                      *)
(***************************************************************************)
EXTENDS Integers, Sequences, FiniteSets, TLC

VARIABLES
    cfg,        \* the parsed arguments main() works from
    kind,       \* backend of each side: "local" (LocalFS) or "adb" (AdbFS)
    tree,       \* the files under each root: name -> [content, mtime]
    tree0,      \* the trees when the run started (history, read by the claims)
    cache,      \* the file_hash table: <<backend, root, rel>> -> [size, mtime, sha1]
    left_idx,   \* index of the left tree  (key -> FileInfo)
    right_idx,  \* index of the right tree (key -> FileInfo)
    actions,    \* the plan returned by plan_sync
    i,          \* position of the for loop of main() in the plan (1-based)
    copies, deletes, skips,   \* the summary counters
    log,        \* what was reported/performed for each processed action
    faults,     \* which external failures happened so far (history)
    pc,         \* "start" | "exec" | "done" | "aborted" | "killed"
    run,        \* which run of the program over these trees this is (1, 2, ...)
    dev,        \* an AdbFS object and the devices `adb devices` reports ready
    gui         \* the window of the GUI: the process it tracks, its Stop button

vars == <<cfg, kind, tree, tree0, cache, left_idx, right_idx, actions, i,
          copies, deletes, skips, log, faults, pc, run, dev, gui>>

Sides == {"left", "right"}
None == "None"

-----------------------------------------------------------------------------
(* Program constants *)

MTIME_TOLERANCE == 2

\* The clock while the run lasts: the stamp a file gets when it is written
\* without its source's times; later than every modification time of the
\* initial trees
Now == 9

-----------------------------------------------------------------------------
(* Path text *)

MarkR == " (conflict from RIGHT)"
MarkL == " (conflict from LEFT)"

\* str.lower() on one token
LowerTok(t) ==
    CASE t = "A" -> "a"
      [] t = "P" -> "p"
      [] t = MarkR -> " (conflict from right)"
      [] t = MarkL -> " (conflict from left)"
      [] t = "MP3" -> "mp3"
      [] OTHER -> t

lower_key(p) == [j \in 1..Len(p) |-> LowerTok(p[j])]

\* Code-point order of the tokens that occur in keys (no token is a prefix
\* of another, so comparing token by token is comparing the strings).
TokRank(t) ==
    CASE t = MarkL -> 1
      [] t = MarkR -> 2
      [] t = " (conflict from left)" -> 3
      [] t = " (conflict from right)" -> 4
      [] t = "." -> 5
      [] t = "/" -> 6
      [] t = "A" -> 7
      [] t = "MP3" -> 8
      [] t = "P" -> 9
      [] t = "_" -> 10
      [] t = "a" -> 11
      [] t = "b" -> 12
      [] t = "d" -> 13
      [] t = "m3u" -> 14
      [] t = "mp3" -> 15
      [] t = "p" -> 16
      [] t = "txt" -> 17
      [] t = "wpl" -> 18
      [] OTHER -> 19

RECURSIVE StrLess(_, _)
StrLess(p, q) ==
    IF p = <<>> THEN q # <<>>
    ELSE IF q = <<>> THEN FALSE
    ELSE IF p[1] = q[1] THEN StrLess(Tail(p), Tail(q))
    ELSE TokRank(p[1]) < TokRank(q[1])

\* sorted() in descending order
RECURSIVE sorted_reverse(_)
sorted_reverse(S) ==
    IF S = {} THEN <<>>
    ELSE LET m == CHOOSE x \in S : \A y \in S \ {x} : StrLess(y, x)
         IN  <<m>> \o sorted_reverse(S \ {m})

RECURSIVE sorted(_)
sorted(S) ==
    IF S = {} THEN <<>>
    ELSE LET m == CHOOSE x \in S : \A y \in S \ {x} : StrLess(x, y)
         IN  <<m>> \o sorted(S \ {m})

\* os.path.splitext: split at the last dot of the last component, the dots
\* the component starts with left aside
DotAt(p) ==
    LET S == {j \in 1..Len(p) : p[j] = "/"}
        b == IF S = {} THEN 0 ELSE CHOOSE j \in S : \A k \in S : k <= j
        I == {j \in (b + 1)..Len(p) : p[j] # "."}
        f == IF I = {} THEN Len(p) + 1 ELSE CHOOSE j \in I : \A k \in I : j <= k
        D == {j \in (f + 1)..Len(p) : p[j] = "."}
    IN  IF D = {} THEN 0 ELSE CHOOSE j \in D : \A k \in D : k <= j

splitext(p) ==
    IF DotAt(p) = 0 THEN <<p, <<>>>>
    ELSE <<SubSeq(p, 1, DotAt(p) - 1), SubSeq(p, DotAt(p), Len(p))>>

\* line 502: the default of --playlist-ext
playlist_ext_default == {<<".", "m3u8">>, <<".", "m3u">>}

is_playlist(path, playlist_exts) == lower_key(splitext(path)[2]) \in playlist_exts

MUSIC_EXTS ==
    {<<".", "mp3">>, <<".", "flac">>, <<".", "wav">>, <<".", "aac">>, <<".", "m4a">>,
     <<".", "ogg">>, <<".", "wma">>, <<".", "alac">>, <<".", "aiff">>}

\* a pattern is the token sequence of its text, "*" a token of its own
DEFAULT_EXCLUDES ==
    {<<".", "DS_Store">>, <<"Thumbs", ".", "db">>, <<".", "Spotlight-V100">>,
     <<".", "Trashes">>, <<".", "_", "*">>}

\* fnmatch.fnmatch for patterns made of literal text and "*" ("*" matches
\* any text, "/" included)
RECURSIVE fnmatch(_, _)
fnmatch(name, pat) ==
    IF pat = <<>> THEN name = <<>>
    ELSE IF pat[1] = "*"
    THEN fnmatch(name, Tail(pat)) \/ (name # <<>> /\ fnmatch(Tail(name), pat))
    ELSE name # <<>> /\ name[1] = pat[1] /\ fnmatch(Tail(name), Tail(pat))

-----------------------------------------------------------------------------
(* File contents, sizes, digests *)

\* A content is a sequence of lines, a line a sequence of one-byte tokens;
\* every line is stored with its line terminator.
RECURSIVE Size(_)
Size(content) ==
    IF content = <<>> THEN 0
    ELSE Len(content[1]) + 1 + Size(Tail(content))

\* sha1sum_stream: the digest is a function of the bytes read, and two
\* different contents of the model never get the same digest
sha1sum_stream(content) == <<"sha1", content>>

\* str.lstrip() and str.strip() of a line (the blank character of the model
\* is the space)
FirstInk(l) ==
    LET D == {j \in 1..Len(l) : l[j] # " "}
    IN  IF D = {} THEN Len(l) + 1 ELSE CHOOSE j \in D : \A k \in D : j <= k

LastInk(l) ==
    LET D == {j \in 1..Len(l) : l[j] # " "}
    IN  IF D = {} THEN 0 ELSE CHOOSE j \in D : \A k \in D : k <= j

lstrip(l) == SubSeq(l, FirstInk(l), Len(l))
strip(l) == SubSeq(l, FirstInk(l), LastInk(l))

\* .replace("\\", "/")
replace_backslash(l) == [j \in 1..Len(l) |-> IF l[j] = "\\" THEN "/" ELSE l[j]]

\* os.path.basename: what follows the last "/"
SlashAt(l) ==
    LET D == {j \in 1..Len(l) : l[j] = "/"}
    IN  IF D = {} THEN 0 ELSE CHOOSE j \in D : \A k \in D : k <= j

basename(l) == SubSeq(l, SlashAt(l) + 1, Len(l))

\* rewrite_line without the conversion of backslashes
rewrite_line_posix(l) ==
    IF l = <<>> \/ (lstrip(l) # <<>> /\ lstrip(l)[1] = "#") THEN l
    ELSE basename(strip(l))

\* lines 543-548: one line of the playlist
rewrite_line(l) ==
    IF l = <<>> \/ (lstrip(l) # <<>> /\ lstrip(l)[1] = "#") THEN l
    ELSE basename(replace_backslash(strip(l)))

\* "\n".join(out_lines) + "\n": an empty text still yields one (empty) line
rewrite_m3u_simple(content) ==
    IF content = <<>> THEN << <<>> >>
    ELSE [j \in 1..Len(content) |-> rewrite_line(content[j])]

-----------------------------------------------------------------------------
(* The hash cache *)

EmptyCache == [x \in {} |-> None]

\* cache_get without the size comparison of line 145
cache_get_any_size(ca, backend, root, rel, size, mtime) ==
    LET k == <<backend, root, rel>>
    IN  IF k \notin DOMAIN ca THEN [hit |-> FALSE, sha1 |-> None]
        ELSE LET row == ca[k]
                 d == row.mtime - mtime
                 absd == IF d < 0 THEN -d ELSE d
             IN  IF absd <= MTIME_TOLERANCE
                 THEN [hit |-> TRUE, sha1 |-> row.sha1]
                 ELSE [hit |-> FALSE, sha1 |-> None]

\* [hit, sha1]: hit = FALSE is the None (miss) result
cache_get(ca, backend, root, rel, size, mtime) ==
    LET k == <<backend, root, rel>>
    IN  IF k \notin DOMAIN ca THEN [hit |-> FALSE, sha1 |-> None]
        ELSE LET row == ca[k]
                 d == row.mtime - mtime
                 absd == IF d < 0 THEN -d ELSE d
             IN  IF row.size = size /\ absd <= MTIME_TOLERANCE
                 THEN [hit |-> TRUE, sha1 |-> row.sha1]
                 ELSE [hit |-> FALSE, sha1 |-> None]

cache_put(ca, backend, root, rel, size, mtime, sha1) ==
    (<<backend, root, rel>> :> [size |-> size, mtime |-> mtime, sha1 |-> sha1]) @@ ca

\* get_hash: [ok, h, cache, failed, cut]; reads tells how the read of the
\* file goes: "ok", "raises" or "cut".
\*   ok = FALSE when open_for_hash or the read raised: a local file that is
\*     absent (open, lines 172-173), or any read that raises ("raises");
\*     failed = the injected exception was the reason.
\*   AdbFS.open_for_hash (lines 360-364) hands out the stdout of
\*     `adb exec-out toybox cat` and never looks at its exit status: when the
\*     file is absent or the stream is cut ("cut") nothing is raised, the
\*     digest is the one of the bytes that came (none, here) and it is stored;
\*     cut = the injected cut was the reason.
get_hash(fs, root, fi, ca, files, reads) ==
    LET h == cache_get(ca, fs, root, fi.rel, fi.size, fi.mtime)
        absent == fi.abspath \notin DOMAIN files
        stored(d, c) ==
            [ok |-> TRUE, h |-> d,
             cache |-> cache_put(ca, fs, root, fi.rel, fi.size, fi.mtime, d),
             failed |-> FALSE, cut |-> c]
    IN  IF h.hit
        THEN [ok |-> TRUE, h |-> h.sha1, cache |-> ca, failed |-> FALSE, cut |-> FALSE]
        ELSE IF fs = "local" /\ absent
        THEN [ok |-> FALSE, h |-> None, cache |-> ca, failed |-> FALSE, cut |-> FALSE]
        ELSE IF reads = "raises"
        THEN [ok |-> FALSE, h |-> None, cache |-> ca, failed |-> TRUE, cut |-> FALSE]
        ELSE IF fs = "adb" /\ absent
        THEN stored(sha1sum_stream(<<>>), FALSE)
        ELSE IF fs = "adb" /\ reads = "cut"
        THEN stored(sha1sum_stream(<<>>), TRUE)
        ELSE stored(sha1sum_stream(files[fi.abspath].content), FALSE)

-----------------------------------------------------------------------------
(* Indexing: LocalFS.list_files / AdbFS.list_files *)

FileInfo(rel, size, mtime) ==
    [rel |-> rel, size |-> size, mtime |-> mtime, abspath |-> rel, key |-> lower_key(rel)]

\* name.startswith('.')
hidden(name) == name # <<>> /\ name[1] = "."

\* any(fnmatch(rel, pat) or fnmatch(name, pat) for pat in excludes)
excluded(rel, name, excludes) ==
    \E pat \in excludes : fnmatch(rel, pat) \/ fnmatch(name, pat)

\* (ext_l in (exts or MUSIC_EXTS)) or (ext_l in {'.m3u', '.m3u8'})
ext_wanted(name, exts) ==
    LET ext_l == lower_key(splitext(name)[2])
    IN  \/ ext_l \in (IF exts = {} THEN MUSIC_EXTS ELSE exts)
        \/ ext_l \in {<<".", "m3u">>, <<".", "m3u8">>}

\* lines 318-331: the filter of the remote listing, on the path of the file
\* relative to the root
want_this(rel, exts, excludes, include_all, skip_hidden) ==
    IF rel = <<>> THEN FALSE
    ELSE IF excluded(rel, basename(rel), excludes) THEN FALSE
    ELSE IF skip_hidden /\ hidden(basename(rel)) THEN FALSE
    ELSE IF include_all THEN TRUE
    ELSE ext_wanted(basename(rel), exts)

\* lines 196-206: os.walk does not enter a directory that was taken out of
\* dirnames (hidden, or matched by an exclude pattern by its relative path
\* or by its name)
walk_enters(rel, excludes, skip_hidden) ==
    \A j \in {k \in 1..Len(rel) : rel[k] = "/"} :
        LET r == SubSeq(rel, 1, j - 1)
        IN  /\ ~(skip_hidden /\ hidden(basename(r)))
            /\ ~excluded(r, basename(r), excludes)

\* lines 207-219: the filter on the files of a directory that is walked
local_wants(rel, exts, excludes, include_all, skip_hidden) ==
    /\ walk_enters(rel, excludes, skip_hidden)
    /\ ~(skip_hidden /\ hidden(basename(rel)))
    /\ ~excluded(rel, basename(rel), excludes)
    /\ (include_all \/ ext_wanted(basename(rel), exts))

\* files: name -> [content, mtime].  Two names with one key: the record
\* seen last stays; the walk order is not fixed by the code, the initial
\* trees of the model hold no such pair.
index_of(files, names, unknown) ==
    LET keys == {lower_key(n) : n \in names}
        nameOf(k) == CHOOSE n \in names : lower_key(n) = k
    IN  [k \in keys |->
            IF unknown THEN FileInfo(nameOf(k), -1, 0)
            ELSE FileInfo(nameOf(k), Size(files[nameOf(k)].content), files[nameOf(k)].mtime)]

\* LocalFS.list_files
local_list_files(files, exts, excludes, include_all, skip_hidden) ==
    index_of(files,
             {n \in DOMAIN files : local_wants(n, exts, excludes, include_all, skip_hidden)},
             FALSE)

\* AdbFS.list_files that returns what it has, nothing, when the batch stat
\* failed
adb_list_files_no_fallback(files, statFails, exts, excludes, include_all, skip_hidden) ==
    IF statFails THEN <<>>
    ELSE index_of(files,
                  {n \in DOMAIN files : want_this(n, exts, excludes, include_all, skip_hidden)},
                  FALSE)

\* AdbFS.list_files.  A batch stat that failed (statFails) marks every
\* record of the candidates size = -1, mtime = 0 (lines 356-357).
adb_list_files(files, statFails, exts, excludes, include_all, skip_hidden) ==
    index_of(files,
             {n \in DOMAIN files : want_this(n, exts, excludes, include_all, skip_hidden)},
             statFails)

\* fs.list_files(root, exts, excludes, include_all, skip_hidden) with the
\* settings c of the run (lines 593, 599)
list_files(files, fs, statFails, c) ==
    IF fs = "adb"
    THEN adb_list_files(files, statFails, c.exts, c.excludes, c.include_all, c.skip_hidden)
    ELSE local_list_files(files, c.exts, c.excludes, c.include_all, c.skip_hidden)

-----------------------------------------------------------------------------
(* Diff & plan *)

Policies == {"newer", "left", "right", "skip", "duplicate"}

Action(op, src, dst_rel, direction, target_side, note) ==
    [op |-> op, src |-> src, dst_rel |-> dst_rel, direction |-> direction,
     target_side |-> target_side, note |-> note]

Abs(x) == IF x < 0 THEN -x ELSE x

\* equal_quick with the tolerance window open at its end
equal_quick_open(a, b) ==
    IF a.size >= 0 /\ b.size >= 0 /\ a.size # b.size THEN FALSE
    ELSE IF a.mtime > 0 /\ b.mtime > 0
    THEN Abs(a.mtime - b.mtime) < MTIME_TOLERANCE
         /\ (a.size < 0 \/ b.size < 0 \/ a.size = b.size)
    ELSE FALSE

\* lines 425-430
equal_quick(a, b) ==
    IF a.size >= 0 /\ b.size >= 0 /\ a.size # b.size THEN FALSE
    ELSE IF a.mtime > 0 /\ b.mtime > 0
    THEN Abs(a.mtime - b.mtime) <= MTIME_TOLERANCE
         /\ (a.size < 0 \/ b.size < 0 \/ a.size = b.size)
    ELSE FALSE

\* conflict_actions whose newer policy lets the right side win a tie
conflict_actions_tie_right(L, R, conflict) ==
    CASE conflict = "newer" ->
            IF L.mtime > R.mtime
            THEN <<Action("copy", L, L.rel, "L2R", None, "newer L->R")>>
            ELSE <<Action("copy", R, R.rel, "R2L", None, "newer R->L")>>
      [] conflict = "left" ->
            <<Action("copy", L, L.rel, "L2R", None, "left wins")>>
      [] conflict = "right" ->
            <<Action("copy", R, R.rel, "R2L", None, "right wins")>>
      [] conflict = "skip" ->
            <<Action("skip", None, None, None, None, <<"conflict skip: ", L.rel>>)>>
      [] conflict = "duplicate" ->
            IF L.mtime >= R.mtime
            THEN <<Action("copy", L, L.rel, "L2R", None, "dup main L->R"),
                   Action("copy", R, splitext(L.rel)[1] \o <<MarkR>> \o splitext(L.rel)[2],
                          "R2L", None, "dup keep both")>>
            ELSE <<Action("copy", R, R.rel, "R2L", None, "dup main R->L"),
                   Action("copy", L, splitext(R.rel)[1] \o <<MarkL>> \o splitext(R.rel)[2],
                          "L2R", None, "dup keep both")>>
      [] OTHER -> <<>>

\* conflict_actions whose left and right policies look at the times first
conflict_actions_sided_by_time(L, R, conflict) ==
    CASE conflict = "newer" ->
            IF L.mtime >= R.mtime
            THEN <<Action("copy", L, L.rel, "L2R", None, "newer L->R")>>
            ELSE <<Action("copy", R, R.rel, "R2L", None, "newer R->L")>>
      [] conflict = "left" ->
            IF L.mtime >= R.mtime
            THEN <<Action("copy", L, L.rel, "L2R", None, "left wins")>>
            ELSE <<>>
      [] conflict = "right" ->
            IF R.mtime >= L.mtime
            THEN <<Action("copy", R, R.rel, "R2L", None, "right wins")>>
            ELSE <<>>
      [] conflict = "skip" ->
            <<Action("skip", None, None, None, None, <<"conflict skip: ", L.rel>>)>>
      [] conflict = "duplicate" ->
            IF L.mtime >= R.mtime
            THEN <<Action("copy", L, L.rel, "L2R", None, "dup main L->R"),
                   Action("copy", R, splitext(L.rel)[1] \o <<MarkR>> \o splitext(L.rel)[2],
                          "R2L", None, "dup keep both")>>
            ELSE <<Action("copy", R, R.rel, "R2L", None, "dup main R->L"),
                   Action("copy", L, splitext(R.rel)[1] \o <<MarkL>> \o splitext(R.rel)[2],
                          "L2R", None, "dup keep both")>>
      [] OTHER -> <<>>

\* lines 449-471: the actions of one key present on both sides and not
\* declared equal (an unknown policy raises: see plan_raises)
conflict_actions(L, R, conflict) ==
    CASE conflict = "newer" ->
            IF L.mtime >= R.mtime
            THEN <<Action("copy", L, L.rel, "L2R", None, "newer L->R")>>
            ELSE <<Action("copy", R, R.rel, "R2L", None, "newer R->L")>>
      [] conflict = "left" ->
            <<Action("copy", L, L.rel, "L2R", None, "left wins")>>
      [] conflict = "right" ->
            <<Action("copy", R, R.rel, "R2L", None, "right wins")>>
      [] conflict = "skip" ->
            <<Action("skip", None, None, None, None, <<"conflict skip: ", L.rel>>)>>
      [] conflict = "duplicate" ->
            IF L.mtime >= R.mtime
            THEN <<Action("copy", L, L.rel, "L2R", None, "dup main L->R"),
                   Action("copy", R, splitext(L.rel)[1] \o <<MarkR>> \o splitext(L.rel)[2],
                          "R2L", None, "dup keep both")>>
            ELSE <<Action("copy", R, R.rel, "R2L", None, "dup main R->L"),
                   Action("copy", L, splitext(R.rel)[1] \o <<MarkL>> \o splitext(R.rel)[2],
                          "L2R", None, "dup keep both")>>
      [] OTHER -> <<>>

\* key_actions whose creates are written under the lookup key
key_actions_dst_key(k, lidx, ridx, mode, conflict) ==
    IF k \in DOMAIN lidx /\ k \notin DOMAIN ridx
    THEN <<Action("copy", lidx[k], k, "L2R", None, "L->R create")>>
    ELSE IF k \in DOMAIN ridx /\ k \notin DOMAIN lidx
    THEN <<Action("copy", ridx[k], k, "R2L", None, "R->L create")>>
    ELSE IF mode = "quick" /\ equal_quick(lidx[k], ridx[k])
    THEN <<>>
    ELSE conflict_actions(lidx[k], ridx[k], conflict)

\* key_actions without the quick-equal test of lines 446-448
key_actions_no_quick(k, lidx, ridx, mode, conflict) ==
    IF k \in DOMAIN lidx /\ k \notin DOMAIN ridx
    THEN <<Action("copy", lidx[k], lidx[k].rel, "L2R", None, "L->R create")>>
    ELSE IF k \in DOMAIN ridx /\ k \notin DOMAIN lidx
    THEN <<Action("copy", ridx[k], ridx[k].rel, "R2L", None, "R->L create")>>
    ELSE conflict_actions(lidx[k], ridx[k], conflict)

\* lines 436-471: the main pass for one key
key_actions(k, lidx, ridx, mode, conflict) ==
    IF k \in DOMAIN lidx /\ k \notin DOMAIN ridx
    THEN <<Action("copy", lidx[k], lidx[k].rel, "L2R", None, "L->R create")>>
    ELSE IF k \in DOMAIN ridx /\ k \notin DOMAIN lidx
    THEN <<Action("copy", ridx[k], ridx[k].rel, "R2L", None, "R->L create")>>
    ELSE IF mode = "quick" /\ equal_quick(lidx[k], ridx[k])
    THEN <<>>
    ELSE conflict_actions(lidx[k], ridx[k], conflict)

RECURSIVE main_pass(_, _, _, _, _)
main_pass(ks, lidx, ridx, mode, conflict) ==
    IF ks = <<>> THEN <<>>
    ELSE key_actions(ks[1], lidx, ridx, mode, conflict)
         \o main_pass(Tail(ks), lidx, ridx, mode, conflict)

\* mirror_deletes that does not take the other side's keys away
mirror_deletes_every_key(lidx, ridx) ==
    LET ro == sorted(DOMAIN ridx)
        lo == sorted(DOMAIN lidx)
    IN  [j \in 1..Len(ro) |->
            Action("delete", None, ridx[ro[j]].rel, None, "right", "mirror delete R-only")]
        \o
        [j \in 1..Len(lo) |->
            Action("delete", None, lidx[lo[j]].rel, None, "left", "mirror delete L-only")]

\* lines 473-477
mirror_deletes(lidx, ridx) ==
    LET ro == sorted(DOMAIN ridx \ DOMAIN lidx)
        lo == sorted(DOMAIN lidx \ DOMAIN ridx)
    IN  [j \in 1..Len(ro) |->
            Action("delete", None, ridx[ro[j]].rel, None, "right", "mirror delete R-only")]
        \o
        [j \in 1..Len(lo) |->
            Action("delete", None, lidx[lo[j]].rel, None, "left", "mirror delete L-only")]

\* line 471: raise ValueError("Unknown conflict policy")
plan_raises(lidx, ridx, mode, conflict) ==
    /\ conflict \notin Policies
    /\ \E k \in DOMAIN lidx \cap DOMAIN ridx :
          ~(mode = "quick" /\ equal_quick(lidx[k], ridx[k]))

plan_sync(lidx, ridx, mode, conflict, mirror_delete) ==
    main_pass(sorted(DOMAIN lidx \cup DOMAIN ridx), lidx, ridx, mode, conflict)
    \o (IF mirror_delete THEN mirror_deletes(lidx, ridx) ELSE <<>>)

-----------------------------------------------------------------------------
(* Executing one action: the body of the for loop of main(), lines 607-696 *)

Other(side) == IF side = "left" THEN "right" ELSE "left"
Root(c, side) == IF side = "left" THEN c.left_root ELSE c.right_root
Protected(c, side) == IF side = "left" THEN c.protect_left ELSE c.protect_right
Idx(side) == IF side = "left" THEN left_idx ELSE right_idx

\* The external failures one loop iteration may meet
NoFault == [exists |-> FALSE, hash |-> "none", cut |-> "none", read |-> FALSE, io |-> FALSE]
\* most kinds of external failure one run meets
MaxFaults == 1
Requested(f) ==
    (IF f.exists THEN {"exists"} ELSE {})
    \cup (IF f.hash # "none" THEN {"hash"} ELSE {})
    \cup (IF f.cut # "none" THEN {"cut"} ELSE {})
    \cup (IF f.read THEN {"read"} ELSE {})
    \cup (IF f.io THEN {"io"} ELSE {})
FaultInputs ==
    {f \in [exists : BOOLEAN, hash : {"none", "src", "dst"}, cut : {"none", "src", "dst"},
            read : BOOLEAN, io : BOOLEAN] :
        Cardinality(Requested(f)) <= MaxFaults}

Result(tr, ca, outcome, used) ==
    [tree |-> tr, cache |-> ca, outcome |-> outcome, used |-> used]

\* lines 628-632: AdbFS.exists is `test -e` by return code, and an exception
\* or a failed command reads as "does not exist"; os.path.exists otherwise
dst_exists(fs, files, dst_abs, testFails) ==
    IF fs = "adb" /\ testFails THEN FALSE ELSE dst_abs \in DOMAIN files

\* need_hash without the unknown markers of quick mode
need_hash_hash_mode_only(mode, src, hasOther, other) ==
    mode = "hash"

\* line 639
need_hash(mode, src, hasOther, other) ==
    \/ mode = "hash"
    \/ /\ mode = "quick"
       /\ \/ src.size < 0
          \/ src.mtime = 0
          \/ (hasOther /\ (other.size < 0 \/ other.mtime = 0))

\* how the read of the file of one end goes, given the failures met
ReadOf(end, hf, hcut) ==
    IF hf = end THEN "raises" ELSE IF hcut = end THEN "cut" ELSE "ok"

\* hash_check where a failed hash reads as "equal"
hash_check_failure_is_equal(src_side, src, other, tr, ca, c, hf, hcut) ==
    LET dst_side == Other(src_side)
        r1 == get_hash(kind[src_side], Root(c, src_side), src, ca, tr[src_side],
                       ReadOf("src", hf, hcut))
        r2 == get_hash(kind[dst_side], Root(c, dst_side), other, r1.cache, tr[dst_side],
                       ReadOf("dst", hf, hcut))
        cuts == IF r1.cut \/ r2.cut THEN {"cut"} ELSE {}
    IN  IF ~r1.ok
        THEN [equal |-> TRUE, cache |-> ca,
              used |-> IF r1.failed THEN {"hash"} ELSE {}]
        ELSE IF ~r2.ok
        THEN [equal |-> TRUE, cache |-> r1.cache,
              used |-> cuts \cup (IF r2.failed THEN {"hash"} ELSE {})]
        ELSE [equal |-> r1.h = r2.h, cache |-> r2.cache, used |-> cuts]

\* lines 641-650: [equal, cache, used]
hash_check(src_side, src, other, tr, ca, c, hf, hcut) ==
    LET dst_side == Other(src_side)
        r1 == get_hash(kind[src_side], Root(c, src_side), src, ca, tr[src_side],
                       ReadOf("src", hf, hcut))
        r2 == get_hash(kind[dst_side], Root(c, dst_side), other, r1.cache, tr[dst_side],
                       ReadOf("dst", hf, hcut))
        cuts == IF r1.cut \/ r2.cut THEN {"cut"} ELSE {}
    IN  IF ~r1.ok
        THEN [equal |-> FALSE, cache |-> ca,
              used |-> IF r1.failed THEN {"hash"} ELSE {}]
        ELSE IF ~r2.ok
        THEN [equal |-> FALSE, cache |-> r1.cache,
              used |-> cuts \cup (IF r2.failed THEN {"hash"} ELSE {})]
        ELSE [equal |-> r1.h = r2.h, cache |-> r2.cache, used |-> cuts]

\* The modification time the destination file has after a transfer:
\* copystat (local to local) and `adb push` keep the source's, `adb pull`
\* without -a and the pull-then-push staging do not.
transfer_mtime(src_fs, dst_fs, src_mtime) ==
    IF src_fs = "local" THEN src_mtime ELSE Now

put_file(tr, side, name, file) ==
    [tr EXCEPT ![side] = (name :> file) @@ tr[side]]

remove_file(tr, side, name) ==
    [tr EXCEPT ![side] = [n \in (DOMAIN tr[side]) \ {name} |-> tr[side][n]]]

\* lines 668-675: the byte-for-byte transfer
copy_file(dry_run, tr, src_side, src, dst_side, dst_abs, ca, used, f) ==
    IF dry_run THEN Result(tr, ca, "copy", used)
    ELSE IF src.abspath \notin DOMAIN tr[src_side]
    THEN Result(tr, ca, "raised", used)
    ELSE IF f.io THEN Result(tr, ca, "raised", used \cup {"io"})
    ELSE Result(put_file(tr, dst_side, dst_abs,
                    [content |-> tr[src_side][src.abspath].content,
                     mtime |-> transfer_mtime(kind[src_side], kind[dst_side],
                                              tr[src_side][src.abspath].mtime)]),
                ca, "copy", used)

\* lines 655-666: the rewritten playlist
copy_playlist(dry_run, tr, src_side, src, dst_side, dst_abs, ca, used, f) ==
    IF dry_run THEN Result(tr, ca, "copy_playlist", used)
    ELSE LET readFailed == f.read /\ src.abspath \in DOMAIN tr[src_side]
             txt == IF f.read \/ src.abspath \notin DOMAIN tr[src_side]
                    THEN <<>> ELSE tr[src_side][src.abspath].content
             u == used \cup (IF readFailed THEN {"read"} ELSE {})
         IN  IF f.io THEN Result(tr, ca, "raised", u \cup {"io"})
             ELSE Result(put_file(tr, dst_side, dst_abs,
                             [content |-> rewrite_m3u_simple(txt), mtime |-> Now]),
                         ca, "copy_playlist", u)

\* lines 608-675
copy_step(a, tr, ca, c, f) ==
    LET src == a.src
        src_side == IF a.direction = "L2R" THEN "left" ELSE "right"
        dst_side == Other(src_side)
        hasOther == src.key \in DOMAIN Idx(dst_side)
        other == IF hasOther THEN Idx(dst_side)[src.key] ELSE src
        dst_abs == a.dst_rel
        there == dst_abs \in DOMAIN tr[dst_side]
        exists == Protected(c, dst_side)
                  /\ dst_exists(kind[dst_side], tr[dst_side], dst_abs, f.exists)
        u1 == IF Protected(c, dst_side) /\ kind[dst_side] = "adb" /\ f.exists /\ there
              THEN {"exists"} ELSE {}
        hc == IF hasOther /\ need_hash(c.mode, src, hasOther, other)
              THEN hash_check(src_side, src, other, tr, ca, c, f.hash, f.cut)
              ELSE [equal |-> FALSE, cache |-> ca, used |-> {}]
        u2 == u1 \cup hc.used
    IN  IF exists THEN Result(tr, ca, "skip_protected", u1)
        ELSE IF hc.equal THEN Result(tr, hc.cache, "skip_equal_hash", u2)
        ELSE IF c.rewrite_playlist /\ is_playlist(src.rel, c.playlist_exts)
        THEN copy_playlist(c.dry_run, tr, src_side, src, dst_side, dst_abs, hc.cache, u2, f)
        ELSE copy_file(c.dry_run, tr, src_side, src, dst_side, dst_abs, hc.cache, u2, f)

\* delete_file without the `if not dry_run` of line 689
delete_file_always(dry_run, tr, side, dst_abs, ca, f) ==
    IF f.io THEN Result(tr, ca, "raised", {"io"})
    ELSE Result(remove_file(tr, side, dst_abs), ca, "delete", {})

\* lines 689-690: delete_path tolerates a path that is already absent
delete_file(dry_run, tr, side, dst_abs, ca, f) ==
    IF dry_run THEN Result(tr, ca, "delete", {})
    ELSE IF f.io THEN Result(tr, ca, "raised", {"io"})
    ELSE Result(remove_file(tr, side, dst_abs), ca, "delete", {})

\* lines 677-691
delete_step(a, tr, ca, c, f) ==
    IF Protected(c, a.target_side)
    THEN Result(tr, ca, "skip_protected_delete", {})
    ELSE delete_file(c.dry_run, tr, a.target_side, a.dst_rel, ca, f)

step(a, tr, ca, c, f) ==
    IF a.op = "copy" THEN copy_step(a, tr, ca, c, f)
    ELSE IF a.op = "delete" THEN delete_step(a, tr, ca, c, f)
    ELSE Result(tr, ca, "skip_conflict", {})

IsCopy(o) == o \in {"copy", "copy_playlist"}
IsSkip(o) == o \in {"skip_protected", "skip_equal_hash", "skip_conflict", "skip_protected_delete"}

-----------------------------------------------------------------------------
(* Bounds: the trees and configurations the runs start from *)

\* most files the two initial trees hold together
MaxFiles == 3
MaxPlanFiles == 4

NameA == <<"a", ".", "mp3">>
NameAU == <<"A", ".", "mp3">>
NameACR == <<"a", MarkR, ".", "mp3">>
NameP == <<"p", ".", "m3u">>

TextX == << <<"d", "/", "s">> >>
TextY == << <<"d", "/", "t">> >>
TextZ == << <<"s">> >>

File(content, mtime) == [content |-> content, mtime |-> mtime]

\* lines 493-494 and 572: --dry-run is a store_true flag whose default is
\* True, so args.dry_run is True whether or not the flag is given
dry_run_of(apply, dry_run) == IF apply THEN ~apply ELSE dry_run

\* an option of the command line a, or its default when it is not given
Option(a, name, default) == IF name \in DOMAIN a THEN a[name] ELSE default

\* the settings main() works from, given the command line a (lines 483-503
\* and 568-577)
parse_args(a) ==
    [mode |-> a.mode, conflict |-> a.conflict, mirror_delete |-> a.delete,
     apply |-> a.apply, dry_run |-> dry_run_of(a.apply, TRUE),
     protect_left |-> a.protect_left, protect_right |-> a.protect_right,
     rewrite_playlist |-> a.rewrite_playlist,
     left_root |-> Option(a, "left", "/l"), right_root |-> Option(a, "right", "/r"),
     include_all |-> Option(a, "all", FALSE),
     exts |-> IF Option(a, "all", FALSE) THEN {} ELSE MUSIC_EXTS,
     excludes |-> DEFAULT_EXCLUDES \cup Option(a, "exclude", {}),
     skip_hidden |-> ~Option(a, "no_skip_hidden", FALSE),
     playlist_exts |-> Option(a, "playlist_ext", playlist_ext_default)]

\* one side's trees over Names: no two names of a tree share a key
SideTrees(Names, Vals) ==
    UNION { [S -> Vals] :
              S \in {T \in SUBSET Names :
                       \A m, n \in T : lower_key(m) = lower_key(n) => m = n} }

TreePairs(LeftNames, RightNames, Vals, max) ==
    {t \in [left : SideTrees(LeftNames, Vals), right : SideTrees(RightNames, Vals)] :
        Cardinality(DOMAIN t["left"]) + Cardinality(DOMAIN t["right"]) <= max}

RunLeftNames == {NameA, NameP}
RunRightNames == {NameA, NameACR}
RunVals == {File(TextX, 1), File(TextY, 4)}
RunKinds == {[left |-> "local", right |-> "local"], [left |-> "local", right |-> "adb"]}
RunConfigs ==
    { parse_args(a) :
        a \in [mode : {"quick", "hash"}, conflict : Policies, delete : BOOLEAN,
               apply : BOOLEAN, protect_left : BOOLEAN, protect_right : BOOLEAN,
               rewrite_playlist : BOOLEAN] }

PlanNames == {NameA, NameAU, NameACR}
PlanVals == {File(TextX, 0), File(TextX, 1), File(TextX, 3), File(TextX, 4), File(TextZ, 1)}
PlanKinds == {[left |-> "adb", right |-> "adb"]}
PlanConfigs ==
    { parse_args(a) :
        a \in [mode : {"quick", "hash"}, conflict : Policies, delete : BOOLEAN,
               apply : {FALSE}, protect_left : {FALSE}, protect_right : {FALSE},
               rewrite_playlist : {FALSE}] }

-----------------------------------------------------------------------------
(* The run *)

\* no remote backend object is followed
NoDevice == [serial |-> None, ready |-> <<>>, queries |-> 0]

\* the window after MainWindow.__init__: no QProcess is tracked (proc 0 is
\* None, line 268), the Stop button is disabled (line 224); alive: the
\* engine processes the system runs; signals: `finished` signals waiting in
\* the event loop; timers: the pending single shots of stop, each with the
\* process Stop was pressed for; launched: the processes created so far
NoWindow ==
    [proc |-> 0, btnStop |-> FALSE, alive |-> {}, signals |-> <<>>, timers |-> <<>>,
     launched |-> 0]

\* caches: what the file_hash table may hold when the run starts;
\* devs: the remote backend object that is followed
InitOf(trees, kinds, configs, caches, devs) ==
    /\ cfg \in configs
    /\ kind \in kinds
    /\ tree \in trees
    /\ tree0 = tree
    /\ cache \in caches
    /\ left_idx = <<>>
    /\ right_idx = <<>>
    /\ actions = <<>>
    /\ i = 1
    /\ copies = 0 /\ deletes = 0 /\ skips = 0
    /\ log = <<>>
    /\ faults = {}
    /\ pc = "start"
    /\ run = 1
    /\ dev \in devs
    /\ gui = NoWindow

InitFrom(trees, kinds, configs, caches) == InitOf(trees, kinds, configs, caches, {NoDevice})

InitWith(trees, kinds, configs) == InitFrom(trees, kinds, configs, {EmptyCache})

Init == InitWith(TreePairs(RunLeftNames, RunRightNames, RunVals, MaxFiles), RunKinds, RunConfigs)

InitPlan == InitWith(TreePairs(PlanNames, PlanNames, PlanVals, MaxPlanFiles), PlanKinds, PlanConfigs)

\* lines 589-603: open the cache, index both sides, plan
Setup ==
    /\ pc = "start"
    /\ \E sf \in [Sides -> BOOLEAN] :
         /\ \A s \in Sides : sf[s] => (kind[s] = "adb" /\ DOMAIN tree[s] # {})
         /\ LET li == list_files(tree["left"], kind["left"], sf["left"], cfg)
                ri == list_files(tree["right"], kind["right"], sf["right"], cfg)
            IN  /\ left_idx' = li
                /\ right_idx' = ri
                /\ IF plan_raises(li, ri, cfg.mode, cfg.conflict)
                   THEN actions' = <<>> /\ pc' = "aborted"
                   ELSE /\ actions' = plan_sync(li, ri, cfg.mode, cfg.conflict, cfg.mirror_delete)
                        /\ pc' = "exec"
         /\ faults' = faults \cup (IF \E s \in Sides : sf[s] THEN {"stat"} ELSE {})
         /\ Cardinality(faults') <= MaxFaults
    /\ i' = 1
    /\ UNCHANGED <<cfg, kind, tree, tree0, cache, copies, deletes, skips, log, run, dev, gui>>

\* one iteration of the for loop, lines 607-696; an exception that no
\* handler of the loop catches ends the run
ExecStep ==
    /\ pc = "exec"
    /\ i <= Len(actions)
    /\ \E f \in FaultInputs :
         LET r == step(actions[i], tree, cache, cfg, f)
         IN  /\ Requested(f) = r.used
             /\ tree' = r.tree
             /\ cache' = r.cache
             /\ log' = Append(log, r.outcome)
             /\ faults' = faults \cup r.used
             /\ Cardinality(faults') <= MaxFaults
             /\ IF r.outcome = "raised"
                THEN pc' = "aborted" /\ i' = i /\ UNCHANGED <<copies, deletes, skips>>
                ELSE /\ pc' = pc
                     /\ i' = i + 1
                     /\ copies' = copies + (IF IsCopy(r.outcome) THEN 1 ELSE 0)
                     /\ deletes' = deletes + (IF r.outcome = "delete" THEN 1 ELSE 0)
                     /\ skips' = skips + (IF IsSkip(r.outcome) THEN 1 ELSE 0)
    /\ UNCHANGED <<cfg, kind, tree0, left_idx, right_idx, actions, run, dev, gui>>

\* lines 698-701: the summary
Finish ==
    /\ pc = "exec"
    /\ i > Len(actions)
    /\ pc' = "done"
    /\ UNCHANGED <<cfg, kind, tree, tree0, cache, left_idx, right_idx, actions, i,
                   copies, deletes, skips, log, faults, run, dev, gui>>

Next == Setup \/ ExecStep \/ Finish

Spec == Init /\ [][Next]_vars

\* indexing and planning alone, over trees with more kinds of metadata
SpecPlan == InitPlan /\ [][Setup]_vars

\* A write cut short (the process is killed, the machine stops) while the
\* destination file is being written.  What the destination path holds then
\* depends on how the write is made:
\*   atomic_copy_with_progress (local to local, lines 91-114) writes a
\*     temporary file beside the destination and renames it: the path keeps
\*     what it had;
\*   `adb pull src dst` (line 388) and `adb push` (lines 234, 380, 394) write
\*     the destination path itself;
\*   FS.write_bytes (lines 179-182) opens the path with "wb", which empties
\*     it, and then writes.
PartialOf(content) == {SubSeq(content, 1, n) : n \in 0..(Len(content) - 1)}

written_in_place(src_fs, dst_fs, playlist) ==
    playlist \/ ~(src_fs = "local" /\ dst_fs = "local")

Interrupt ==
    /\ pc = "exec"
    /\ i <= Len(actions)
    /\ actions[i].op = "copy"
    /\ LET a == actions[i]
           src_side == IF a.direction = "L2R" THEN "left" ELSE "right"
           dst_side == Other(src_side)
           r == step(a, tree, cache, cfg, NoFault)
           new == IF r.outcome = "copy_playlist"
                  THEN rewrite_m3u_simple(tree[src_side][a.src.abspath].content)
                  ELSE tree[src_side][a.src.abspath].content
       IN  /\ ~cfg.dry_run
           /\ IsCopy(r.outcome)
           /\ IF written_in_place(kind[src_side], kind[dst_side], r.outcome = "copy_playlist")
              THEN \E part \in PartialOf(new) :
                      tree' = put_file(tree, dst_side, a.dst_rel, [content |-> part, mtime |-> Now])
              ELSE tree' = tree
           /\ cache' = r.cache
    /\ log' = Append(log, "interrupted")
    /\ pc' = "killed"
    /\ UNCHANGED <<cfg, kind, tree0, left_idx, right_idx, actions, i, copies, deletes,
                   skips, faults, run, dev, gui>>

CrashConfigs ==
    { parse_args(a) :
        a \in [mode : {"quick", "hash"}, conflict : {"newer", "left", "right"},
               delete : BOOLEAN, apply : {TRUE}, protect_left : {FALSE},
               protect_right : {FALSE}, rewrite_playlist : BOOLEAN] }
CrashKinds == RunKinds \cup {[left |-> "adb", right |-> "local"]}

InitCrash ==
    InitWith(TreePairs(RunLeftNames, RunRightNames, RunVals, MaxFiles), CrashKinds, CrashConfigs)

NextCrash == Next \/ Interrupt

SpecCrash == InitCrash /\ [][NextCrash]_vars

\* The Stop button of the GUI (sync_music_gui_storages.py, MainWindow.stop,
\* lines 383-389): the run is a child process (launch, lines 360-367) and stop
\* calls proc.terminate(), then proc.kill() two seconds later.  The engine
\* installs no signal handler and its loop (main, lines 607-696) reads no stop
\* flag, so the process ends wherever it is: before planning, between two
\* actions, or inside a transfer.
\*   A transfer the engine writes itself stops where it is: the temporary
\*     file of atomic_copy_with_progress is left and the path keeps what it
\*     had; a playlist opened with "wb" keeps a prefix.
\*   A transfer done by an adb child process (lines 252-257) is not covered by
\*     the signal: the path keeps what it had, a prefix, or the whole file.
stopped_contents(src_fs, dst_fs, playlist, new) ==
    IF src_fs = "local" /\ dst_fs = "local"
    THEN IF playlist THEN PartialOf(new) ELSE {}
    ELSE PartialOf(new) \cup {new}

stop_between ==
    /\ pc \in {"start", "exec"}
    /\ log' = Append(log, "stopped")
    /\ pc' = "killed"
    /\ UNCHANGED <<cfg, kind, tree, tree0, cache, left_idx, right_idx, actions, i,
                   copies, deletes, skips, faults, run, dev, gui>>

stop_in_copy ==
    /\ pc = "exec"
    /\ i <= Len(actions)
    /\ actions[i].op = "copy"
    /\ LET a == actions[i]
           src_side == IF a.direction = "L2R" THEN "left" ELSE "right"
           dst_side == Other(src_side)
           r == step(a, tree, cache, cfg, NoFault)
           new == IF r.outcome = "copy_playlist"
                  THEN rewrite_m3u_simple(tree[src_side][a.src.abspath].content)
                  ELSE tree[src_side][a.src.abspath].content
       IN  /\ ~cfg.dry_run
           /\ IsCopy(r.outcome)
           /\ \/ tree' = tree
              \/ \E c \in stopped_contents(kind[src_side], kind[dst_side],
                                           r.outcome = "copy_playlist", new) :
                    tree' = put_file(tree, dst_side, a.dst_rel, [content |-> c, mtime |-> Now])
           /\ cache' = r.cache
    /\ log' = Append(log, "interrupted")
    /\ pc' = "killed"
    /\ UNCHANGED <<cfg, kind, tree0, left_idx, right_idx, actions, i, copies, deletes,
                   skips, faults, run, dev, gui>>

stop == stop_between \/ stop_in_copy

NextStop == Next \/ stop

SpecStop == InitCrash /\ [][NextStop]_vars

\* a run that copies one playlist, rewritten, into an empty local tree: the
\* playlist is some lines around one line of at most MaxLineLen characters
MaxLineLen == 3
MaxPad == 1
LineChars == {"#", " ", "\\", "/", "s"}
Lines == UNION {[1..n -> LineChars] : n \in 0..MaxLineLen}
PadLines == {<<"#", "s">>, <<"s", "/", "d">>}
Pads == UNION {[1..n -> PadLines] : n \in 0..MaxPad}
Texts == {<<>>} \cup {pre \o <<l>> \o post : pre \in Pads, l \in Lines, post \in Pads}

InitRewrite ==
    InitWith({[left |-> (NameP :> File(t, 1)), right |-> <<>>] : t \in Texts},
             {[left |-> "local", right |-> "local"]},
             {parse_args(a) : a \in
                 [mode : {"quick"}, conflict : {"newer"}, delete : {FALSE}, apply : {TRUE},
                  protect_left : {FALSE}, protect_right : {FALSE},
                  rewrite_playlist : {TRUE}]})

SpecRewrite == InitRewrite /\ [][Next]_vars

\* The program is started again with the same command line over the trees
\* and the cache file the finished run left (at most MaxRuns runs in all)
MaxRuns == 2

Restart ==
    /\ pc = "done"
    /\ run < MaxRuns
    /\ run' = run + 1
    /\ pc' = "start"
    /\ tree0' = tree
    /\ left_idx' = <<>>
    /\ right_idx' = <<>>
    /\ actions' = <<>>
    /\ i' = 1
    /\ copies' = 0 /\ deletes' = 0 /\ skips' = 0
    /\ log' = <<>>
    /\ UNCHANGED <<cfg, kind, tree, cache, faults, dev, gui>>

TwiceConfigs ==
    { parse_args(a) :
        a \in [mode : {"quick", "hash"}, conflict : {"newer", "left", "right"},
               delete : {FALSE}, apply : {TRUE}, protect_left : {FALSE},
               protect_right : {FALSE}, rewrite_playlist : BOOLEAN] }

InitTwice ==
    InitWith(TreePairs(RunLeftNames, RunRightNames, RunVals, MaxFiles), CrashKinds, TwiceConfigs)

NextTwice == Next \/ Restart

SpecTwice == InitTwice /\ [][NextTwice]_vars

\* indexing alone: the same files under a local root and under a remote
\* root, in directories, hidden, of several extensions, listed under every
\* combination of --all, --no-skip-hidden, --exclude and --playlist-ext
MaxListFiles == 3
NameB == <<"b", ".", "txt">>
NameW == <<"b", ".", "wpl">>
NameHidden == <<".", "a", ".", "mp3">>
NameFork == <<".", "_", "a", ".", "mp3">>
NameInDir == <<"d", "/", "a", ".", "mp3">>
NameInHiddenDir == <<".", "d", "/", "a", ".", "mp3">>
NameInForkDir == <<".", "_", "d", "/", "p", ".", "m3u">>
ListNames ==
    {NameA, NameP, NameB, NameW, NameHidden, NameFork, NameInDir, NameInHiddenDir,
     NameInForkDir}
ListExcludes == {{}, {<<"d">>}, {<<"*", ".", "m3u">>}}
ListPlaylistExts == {playlist_ext_default, {<<".", "wpl">>}}
ListKinds == {[left |-> "local", right |-> "adb"], [left |-> "adb", right |-> "local"]}
ListConfigs ==
    { parse_args(a) :
        a \in [mode : {"quick"}, conflict : {"newer"}, delete : {FALSE}, apply : {FALSE},
               protect_left : {FALSE}, protect_right : {FALSE}, rewrite_playlist : {FALSE},
               all : BOOLEAN, no_skip_hidden : BOOLEAN, exclude : ListExcludes,
               playlist_ext : ListPlaylistExts] }
ListTrees ==
    {[left |-> t, right |-> t] :
        t \in {u \in SideTrees(ListNames, {File(TextX, 1)}) :
                 Cardinality(DOMAIN u) <= MaxListFiles}}

InitList == InitWith(ListTrees, ListKinds, ListConfigs)

SpecList == InitList /\ [][Setup]_vars

\* An AdbFS object through its operations (ensure_remote_dir, exists,
\* list_files, open_for_hash, read_bytes, write_bytes, copy_to, delete_path:
\* each starts with self._ensure_device()), while devices come and go.
MaxOps == 3
DeviceIds == {"d1", "d2"}
ReadyLists == {<<>>, <<"d1">>, <<"d2">>, <<"d1", "d2">>, <<"d2", "d1">>}
Serials == {None, ""} \cup DeviceIds

\* _ensure_device that asks for the devices on every call
ensure_device_every_call(serial, ready, adbFails) ==
    IF adbFails
    THEN [serial |-> serial, queried |-> TRUE, error |-> "CalledProcessError"]
    ELSE IF ready = <<>>
    THEN [serial |-> serial, queried |-> TRUE, error |-> "RuntimeError"]
    ELSE [serial |-> ready[1], queried |-> TRUE, error |-> None]

\* lines 262-269: `if self.serial` is false for None and for the empty
\* string; `adb devices` runs with check=True (adbFails: it exits non-zero);
\* ready: the serials of the lines holding "\tdevice", in order
ensure_device(serial, ready, adbFails) ==
    IF serial \notin {None, ""}
    THEN [serial |-> serial, queried |-> FALSE, error |-> None]
    ELSE IF adbFails
    THEN [serial |-> serial, queried |-> TRUE, error |-> "CalledProcessError"]
    ELSE IF ready = <<>>
    THEN [serial |-> serial, queried |-> TRUE, error |-> "RuntimeError"]
    ELSE [serial |-> ready[1], queried |-> TRUE, error |-> None]

\* one operation of the backend object
DeviceOp ==
    /\ Len(log) < MaxOps
    /\ \E adbFails \in BOOLEAN :
         LET r == ensure_device(dev.serial, dev.ready, adbFails)
         IN  /\ adbFails => r.queried
             /\ dev' = [dev EXCEPT !.serial = r.serial,
                                   !.queries = @ + (IF r.queried THEN 1 ELSE 0)]
             /\ log' = Append(log, [before |-> dev.serial, ready |-> dev.ready,
                                     after |-> r.serial, queried |-> r.queried,
                                     error |-> r.error])
    /\ UNCHANGED <<cfg, kind, tree, tree0, cache, left_idx, right_idx, actions, i,
                   copies, deletes, skips, faults, pc, run, gui>>

\* a device is plugged in, unplugged, authorised, goes offline
DevicesChange ==
    /\ \E l \in ReadyLists \ {dev.ready} : dev' = [dev EXCEPT !.ready = l]
    /\ UNCHANGED <<cfg, kind, tree, tree0, cache, left_idx, right_idx, actions, i,
                   copies, deletes, skips, log, faults, pc, run, gui>>

\* AdbFS(serial) as parse_endpoint builds it (lines 505-515)
InitDevice ==
    InitOf({[left |-> <<>>, right |-> <<>>]}, {[left |-> "adb", right |-> "local"]},
           {parse_args([mode |-> "quick", conflict |-> "newer", delete |-> FALSE,
                        apply |-> FALSE, protect_left |-> FALSE, protect_right |-> FALSE,
                        rewrite_playlist |-> FALSE])},
           {EmptyCache},
           [serial : Serials, ready : ReadyLists, queries : {0}])

NextDevice == DeviceOp \/ DevicesChange

SpecDevice == InitDevice /\ [][NextDevice]_vars

\* runs between every pair of backends, two devices whose endpoints name
\* the same root path included (adb://device:d1/m and adb://device:d2/m)
RootPairs == {<<"/l", "/r">>, <<"/m", "/m">>}
SharedKinds == [left : {"local", "adb"}, right : {"local", "adb"}]
SharedConfigs ==
    { parse_args(a) :
        a \in [mode : {"quick", "hash"}, conflict : {"newer", "left"}, delete : {FALSE},
               apply : BOOLEAN, protect_left : {FALSE}, protect_right : {FALSE},
               rewrite_playlist : {FALSE},
               left : {p[1] : p \in RootPairs}, right : {p[2] : p \in RootPairs}] }

\* two local endpoints with one root are one folder, not two trees
InitShared ==
    /\ InitWith(TreePairs(RunLeftNames, RunRightNames, RunVals, MaxFiles), SharedKinds,
                SharedConfigs)
    /\ <<cfg.left_root, cfg.right_root>> \in RootPairs
    /\ cfg.left_root = cfg.right_root => (kind["left"] = "adb" /\ kind["right"] = "adb")

SpecShared == InitShared /\ [][Next]_vars

\* the window of the GUI: clicks, the engine process's exit, the `finished`
\* signal and the single shot of stop, each handler run to its end by the
\* event loop before the next one starts
MaxLaunches == 2
MaxEvents == 6

GuiEvent(ev, pid, for, tracked) == [ev |-> ev, pid |-> pid, for |-> for, tracked |-> tracked]

\* launch without its first test
launch_while_busy(w, dry_run, endpoints, engine, starts) ==
    IF ~endpoints
    THEN [w |-> w, ev |-> "missing"]
    ELSE IF ~engine
    THEN [w |-> w, ev |-> "engine_missing"]
    ELSE [w |-> [w EXCEPT !.proc = w.launched + 1,
                          !.launched = @ + 1,
                          !.alive = IF starts THEN @ \cup {w.launched + 1} ELSE @,
                          !.btnStop = TRUE],
          ev |-> "launch"]

\* MainWindow.launch: refused while a QProcess is tracked, without both
\* endpoints, without the engine script; else a new QProcess is tracked and
\* started and Stop is enabled. starts: QProcess.start() brought the
\* program up (a program that fails to start emits no `finished`)
launch(w, dry_run, endpoints, engine, starts) ==
    IF w.proc # 0
    THEN [w |-> w, ev |-> "busy"]
    ELSE IF ~endpoints
    THEN [w |-> w, ev |-> "missing"]
    ELSE IF ~engine
    THEN [w |-> w, ev |-> "engine_missing"]
    ELSE [w |-> [w EXCEPT !.proc = w.launched + 1,
                          !.launched = @ + 1,
                          !.alive = IF starts THEN @ \cup {w.launched + 1} ELSE @,
                          !.btnStop = TRUE],
          ev |-> "launch"]

\* MainWindow.on_finished
on_finished(w) == [w EXCEPT !.proc = 0, !.btnStop = FALSE]

\* MainWindow.stop: terminate() asks the tracked process to end, and a
\* single shot is armed; its lambda names self.proc, not the process
stop_clicked(w) ==
    IF w.proc = 0 THEN w ELSE [w EXCEPT !.timers = Append(@, w.proc)]

\* the lambda of the single shot: self.proc and self.proc.kill(); the
\* process killed is the one tracked when the timer fires (0: none)
kill_target(w) == w.proc

\* Preview or Run is clicked (no more than MaxLaunches processes are created)
ClickLaunch ==
    /\ Len(log) < MaxEvents
    /\ \E dry_run \in BOOLEAN, endpoints \in BOOLEAN, engine \in BOOLEAN, starts \in BOOLEAN :
         LET r == launch(gui, dry_run, endpoints, engine, starts)
         IN  /\ r.ev = "launch" => gui.launched < MaxLaunches
             /\ gui' = r.w
             /\ log' = Append(log, GuiEvent(r.ev, r.w.proc, 0, gui.proc))
    /\ UNCHANGED <<cfg, kind, tree, tree0, cache, left_idx, right_idx, actions, i,
                   copies, deletes, skips, faults, pc, run, dev>>

\* Stop is clicked; a disabled button emits no click
ClickStop ==
    /\ Len(log) < MaxEvents
    /\ gui.btnStop
    /\ gui' = stop_clicked(gui)
    /\ log' = Append(log, GuiEvent("stop", gui.proc, gui.proc, gui.proc))
    /\ UNCHANGED <<cfg, kind, tree, tree0, cache, left_idx, right_idx, actions, i,
                   copies, deletes, skips, faults, pc, run, dev>>

\* an engine process ends: by itself, after terminate() or after kill()
ProcessExits ==
    /\ Len(log) < MaxEvents
    /\ \E p \in gui.alive :
         /\ gui' = [gui EXCEPT !.alive = @ \ {p}, !.signals = Append(@, p)]
         /\ log' = Append(log, GuiEvent("exit", p, 0, gui.proc))
    /\ UNCHANGED <<cfg, kind, tree, tree0, cache, left_idx, right_idx, actions, i,
                   copies, deletes, skips, faults, pc, run, dev>>

\* the event loop delivers `finished` to on_finished
Finished ==
    /\ Len(log) < MaxEvents
    /\ gui.signals # <<>>
    /\ gui' = [on_finished(gui) EXCEPT !.signals = Tail(@)]
    /\ log' = Append(log, GuiEvent("finished", Head(gui.signals), 0, gui.proc))
    /\ UNCHANGED <<cfg, kind, tree, tree0, cache, left_idx, right_idx, actions, i,
                   copies, deletes, skips, faults, pc, run, dev>>

\* a single shot of stop fires, two seconds after its click
TimerFires ==
    /\ Len(log) < MaxEvents
    /\ gui.timers # <<>>
    /\ gui' = [gui EXCEPT !.timers = Tail(@)]
    /\ log' = Append(log, GuiEvent(IF kill_target(gui) = 0 THEN "no_kill" ELSE "kill",
                                   kill_target(gui), Head(gui.timers), gui.proc))
    /\ UNCHANGED <<cfg, kind, tree, tree0, cache, left_idx, right_idx, actions, i,
                   copies, deletes, skips, faults, pc, run, dev>>

InitGui ==
    InitOf({[left |-> <<>>, right |-> <<>>]}, {[left |-> "local", right |-> "local"]},
           {parse_args([mode |-> "quick", conflict |-> "newer", delete |-> FALSE,
                        apply |-> FALSE, protect_left |-> FALSE, protect_right |-> FALSE,
                        rewrite_playlist |-> FALSE])},
           {EmptyCache}, {NoDevice})

NextGui == ClickLaunch \/ ClickStop \/ ProcessExits \/ Finished \/ TimerFires

SpecGui == InitGui /\ [][NextGui]_vars

\* plan_sync called directly: its conflict argument is any string, not only
\* one that the choices of --conflict (line 488) let through
UnknownPolicy == "merge"
CallConfigs == PlanConfigs \cup {[c EXCEPT !.conflict = UnknownPolicy] : c \in PlanConfigs}

InitCall == InitWith(TreePairs(PlanNames, PlanNames, RunVals, MaxFiles), PlanKinds, CallConfigs)

SpecCall == InitCall /\ [][Setup]_vars

\* get_hash called on the file of a one-file tree, over a file_hash table
\* left by earlier runs: at most one row, written by cache_put for a record
\* an index can hold
MaxCalls == 2
CacheTexts == {TextX, TextY, TextZ}
CacheSizes == {Size(t) : t \in CacheTexts} \cup {-1}
CacheTimes == {0, 1, 3, 4}
CacheKinds == {[left |-> "local", right |-> "local"], [left |-> "adb", right |-> "adb"]}
CacheTrees ==
    {[left |-> (NameA :> File(t, m)), right |-> <<>>] : t \in CacheTexts, m \in CacheTimes}
Caches ==
    {EmptyCache}
    \cup {cache_put(EmptyCache, b, "/l", NameA, sz, m, sha1sum_stream(t)) :
             b \in {"local", "adb"}, sz \in CacheSizes, m \in CacheTimes, t \in CacheTexts}

InitCache ==
    InitFrom(CacheTrees, CacheKinds, {parse_args(a) : a \in
                 [mode : {"hash"}, conflict : {"newer"}, delete : {FALSE}, apply : {FALSE},
                  protect_left : {FALSE}, protect_right : {FALSE},
                  rewrite_playlist : {FALSE}]}, Caches)

\* one call get_hash(fsL, left_root, fi, cache), fi a record of the left index
HashCall ==
    /\ pc = "start"
    /\ Len(log) < MaxCalls
    /\ \E sf \in BOOLEAN, reads \in {"ok", "raises", "cut"} :
         /\ sf => kind["left"] = "adb"
         /\ LET idx == list_files(tree["left"], kind["left"], sf, cfg)
                fi == idx[lower_key(NameA)]
                r == get_hash(kind["left"], cfg.left_root, fi, cache, tree["left"], reads)
            IN  /\ (reads = "raises") = r.failed
                /\ (reads = "cut") = r.cut
                /\ left_idx' = idx
                /\ cache' = r.cache
                /\ log' = Append(log, [before |-> cache, fi |-> fi, reads |-> reads,
                                        ok |-> r.ok, h |-> r.h, after |-> r.cache])
    /\ UNCHANGED <<cfg, kind, tree, tree0, right_idx, actions, i, copies, deletes,
                   skips, faults, pc, run, dev, gui>>

SpecCache == InitCache /\ [][HashCall]_vars

-----------------------------------------------------------------------------
(* Shared vocabulary of the properties *)

Keys(files) == {lower_key(n) : n \in DOMAIN files}
Both == DOMAIN left_idx \cap DOMAIN right_idx
Planned == pc = "exec" /\ i = 1 /\ log = <<>>
Indices == 1..Len(actions)
DstSide(a) == IF a.direction = "L2R" THEN "right" ELSE "left"
NoProtection == ~cfg.protect_left /\ ~cfg.protect_right

\* the plan holds a main-pass action (a Copy from a record of key k, or the
\* Skip reported for k)
HasAction(k) ==
    \E j \in Indices :
        \/ actions[j].op = "copy" /\ actions[j].src.key = k
        \/ actions[j].op = "skip" /\ lower_key(actions[j].note[2]) = k

\* what a dry run of the same plan over the initial trees reports, action
\* by action, starting from cache ca
RECURSIVE DryLog(_, _)
DryLog(j, ca) ==
    IF j > Len(actions) THEN <<>>
    ELSE LET r == step(actions[j], tree0, ca, [cfg EXCEPT !.dry_run = TRUE], NoFault)
         IN  <<r.outcome>> \o DryLog(j + 1, r.cache)

CountCopies(seq) == Cardinality({j \in 1..Len(seq) : IsCopy(seq[j])})
CountSkips(seq) == Cardinality({j \in 1..Len(seq) : IsSkip(seq[j])})
CountDeletes(seq) == Cardinality({j \in 1..Len(seq) : seq[j] = "delete"})

-----------------------------------------------------------------------------
(* C1 *)

\* C1: every file that existed on a protected endpoint when the run started
\* still exists there with unchanged content, whatever succeeds or fails.
C1_ProtectedFilesKept ==
    \A s \in Sides :
        Protected(cfg, s) =>
            \A n \in DOMAIN tree0[s] :
                n \in DOMAIN tree[s] /\ tree[s][n].content = tree0[s][n].content

-----------------------------------------------------------------------------
(* C2 *)

\* C2: under the duplicate policy, once the plan has been applied (no
\* protection, no failure; here already without playlist rewriting and
\* mirror delete), for every key whose two files differed the winner's
\* content is under the normal filename on both sides and the loser's
\* original content is under the disambiguated filename.
C2_DuplicateKeepsBoth ==
    (/\ pc = "done" /\ cfg.conflict = "duplicate" /\ ~cfg.dry_run
     /\ NoProtection /\ ~cfg.rewrite_playlist /\ ~cfg.mirror_delete /\ faults = {})
    => \A k \in Both :
          LET L == left_idx[k]
              R == right_idx[k]
              leftWins == L.mtime >= R.mtime
              W == IF leftWins THEN L ELSE R
              won == IF leftWins THEN tree0["left"][L.abspath].content
                     ELSE tree0["right"][R.abspath].content
              lost == IF leftWins THEN tree0["right"][R.abspath].content
                      ELSE tree0["left"][L.abspath].content
              dup == splitext(W.rel)[1] \o <<IF leftWins THEN MarkR ELSE MarkL>>
                     \o splitext(W.rel)[2]
          IN  (won # lost /\ HasAction(k)) =>
                /\ \A s \in Sides :
                      W.rel \in DOMAIN tree[s] /\ tree[s][W.rel].content = won
                /\ \E s \in Sides :
                      dup \in DOMAIN tree[s] /\ tree[s][dup].content = lost

-----------------------------------------------------------------------------
(* C3 *)

\* C3: in a plan made under the duplicate policy no two Copy actions write
\* the same destination relative path on the same side.
C3_NoSameDestination ==
    (Planned /\ cfg.conflict = "duplicate")
    => \A m, n \in Indices :
          (m # n /\ actions[m].op = "copy" /\ actions[n].op = "copy"
           /\ DstSide(actions[m]) = DstSide(actions[n]))
          => actions[m].dst_rel # actions[n].dst_rel

-----------------------------------------------------------------------------
(* C4 *)

Reconciled ==
    /\ DOMAIN left_idx = DOMAIN right_idx
    /\ \A k \in Both : /\ left_idx[k].size = right_idx[k].size
                       /\ left_idx[k].mtime = right_idx[k].mtime

\* C4 as stated: same key set and identical size and modification time for
\* every pair give an empty plan in every mode, policy and mirror setting.
C4_ReconciledEmptyAnyMode ==
    (Planned /\ Reconciled) => actions = <<>>

\* C4 as amended: same key set and identical size and identical positive
\* modification time for every pair give an empty plan in quick mode, for
\* every conflict policy and either value of mirror-delete.
C4_ReconciledEmptyQuick ==
    (/\ Planned /\ Reconciled /\ cfg.mode = "quick"
     /\ \A k \in Both : left_idx[k].mtime > 0)
    => actions = <<>>

C4_Witness ==
    /\ Planned /\ Reconciled /\ cfg.mode = "quick"
    /\ cfg.mirror_delete /\ cfg.conflict = "duplicate"
    /\ Cardinality(Both) = 2
    /\ \A k \in Both : left_idx[k].mtime > 0
    /\ \E k \in Both : left_idx[k].rel # right_idx[k].rel
    /\ actions = <<>>

-----------------------------------------------------------------------------
(* C8 *)

QuickEqual(L, R) ==
    /\ L.size >= 0 /\ R.size >= 0 /\ L.size = R.size
    /\ L.mtime > 0 /\ R.mtime > 0
    /\ L.mtime - R.mtime <= 2 /\ R.mtime - L.mtime <= 2

-----------------------------------------------------------------------------
(* C9 *)

DeletesOf(k) ==
    {j \in Indices : actions[j].op = "delete" /\ lower_key(actions[j].dst_rel) = k}

\* C9: with mirror-delete on, the plan holds exactly one Delete for each key
\* present on one side only, aimed at the side that has it; every Delete
\* comes after every Copy and Skip; no key present on both sides gets one.
C9_MirrorDeletes ==
    (Planned /\ cfg.mirror_delete)
    => /\ \A k \in DOMAIN left_idx \ DOMAIN right_idx :
             /\ Cardinality(DeletesOf(k)) = 1
             /\ \A j \in DeletesOf(k) : /\ actions[j].target_side = "left"
                                        /\ actions[j].dst_rel = left_idx[k].rel
       /\ \A k \in DOMAIN right_idx \ DOMAIN left_idx :
             /\ Cardinality(DeletesOf(k)) = 1
             /\ \A j \in DeletesOf(k) : /\ actions[j].target_side = "right"
                                        /\ actions[j].dst_rel = right_idx[k].rel
       /\ \A k \in Both : DeletesOf(k) = {}
       /\ \A m, n \in Indices :
             (m < n /\ actions[m].op = "delete") => actions[n].op = "delete"

C9_Witness ==
    /\ Planned /\ cfg.mirror_delete /\ cfg.conflict = "skip"
    /\ \E k \in DOMAIN right_idx \ DOMAIN left_idx : right_idx[k].rel # k
    /\ \E k \in Both : HasAction(k)
    /\ Len(actions) = 3
    /\ actions[3].op = "delete" /\ actions[3].target_side = "right"

-----------------------------------------------------------------------------
(* C5 *)

\* C5: an apply run (no failure) ends with, for every planned action, the
\* outcome a dry run of the same configuration, trees and cache reports,
\* and with the same summary counts.
C5_DryRunPredictsApply ==
    (pc = "done" /\ ~cfg.dry_run /\ faults = {})
    => /\ log = DryLog(1, EmptyCache)
       /\ copies = CountCopies(DryLog(1, EmptyCache))
       /\ deletes = CountDeletes(DryLog(1, EmptyCache))
       /\ skips = CountSkips(DryLog(1, EmptyCache))

-----------------------------------------------------------------------------
(* C6 *)

\* C6: in a dry run (whenever --apply is not given) no action creates,
\* overwrites or deletes a file of either tree: the trees stay what they were
\* when the run started, and every would-be copy, playlist write and delete
\* is only reported.
C6_DryRunChangesNothing ==
    ~cfg.apply => (cfg.dry_run /\ tree = tree0)

C6_Witness ==
    /\ pc = "done" /\ ~cfg.apply /\ faults = {}
    /\ \E j \in 1..Len(log) : log[j] = "copy" /\ actions[j].dst_rel \in DOMAIN tree[DstSide(actions[j])]
    /\ \E j \in 1..Len(log) : log[j] = "copy_playlist"
    /\ \E j \in 1..Len(log) : log[j] = "delete" /\ actions[j].dst_rel \in DOMAIN tree[actions[j].target_side]

-----------------------------------------------------------------------------
(* C7 *)

\* C7: a failing copy, playlist write or delete does not end the run: when
\* the run is over, every action of the plan has been processed.
C7_RunContinuesAfterFailure ==
    pc \in {"done", "aborted"} => (i > Len(actions) /\ Len(log) = Len(actions))

-----------------------------------------------------------------------------
(* C10 *)

\* C10: after an apply run with mirror-delete, no protection and no failing
\* operation both trees hold the same keys.
C10_MirrorMakesTreesMatch ==
    (/\ pc = "done" /\ ~cfg.dry_run /\ cfg.mirror_delete /\ NoProtection
     /\ faults = {})
    => Keys(tree["left"]) = Keys(tree["right"])

-----------------------------------------------------------------------------
(* C11 *)

\* C11: plan_sync called with a conflict policy outside the five known ones
\* ends in a fatal error for every pair of indexes, also when no key needs
\* conflict resolution, before any action is executed; it returns no plan.
C11_UnknownPolicyIsFatal ==
    (cfg.conflict \notin Policies /\ pc # "start")
    => (pc = "aborted" /\ actions = <<>>)

-----------------------------------------------------------------------------
(* C12 *)

\* the row of the table before call e answers e's record: same backend, root
\* and path, the same size, modification times at most 2 apart
RowValid(e) ==
    LET k == <<kind["left"], cfg.left_root, e.fi.rel>>
    IN  /\ k \in DOMAIN e.before
        /\ e.before[k].size = e.fi.size
        /\ e.before[k].mtime - e.fi.mtime <= 2
        /\ e.fi.mtime - e.before[k].mtime <= 2

\* C12: the stored hash is returned only when a row exists for (backend,
\* root, rel) with exactly the given size and a modification time at most 2
\* from the given one; in every other case the digest is computed from the
\* file (when the file is read to its end) and the row is overwritten with
\* the given size, time and the digest.
C12_CacheHonoredOnlyWhenValid ==
    \A j \in 1..Len(log) :
        LET e == log[j]
            k == <<kind["left"], cfg.left_root, e.fi.rel>>
        IN  /\ RowValid(e) => (e.ok /\ e.h = e.before[k].sha1 /\ e.after = e.before)
            /\ (~RowValid(e) /\ e.ok /\ e.reads = "ok") =>
                  /\ e.h = <<"sha1", tree["left"][e.fi.abspath].content>>
                  /\ k \in DOMAIN e.after
                  /\ e.after[k] = [size |-> e.fi.size, mtime |-> e.fi.mtime, sha1 |-> e.h]
            /\ (~RowValid(e) /\ ~e.ok) => e.after = e.before

C12_Witness ==
    /\ Len(log) = 2
    /\ ~RowValid(log[1]) /\ log[1].ok
    /\ <<kind["left"], cfg.left_root, NameA>> \in DOMAIN log[1].before
    /\ log[1].before[<<kind["left"], cfg.left_root, NameA>>].size = log[1].fi.size
    /\ log[1].before[<<kind["left"], cfg.left_root, NameA>>].mtime - log[1].fi.mtime = 3
    /\ log[1].h # log[1].before[<<kind["left"], cfg.left_root, NameA>>].sha1
    /\ RowValid(log[2]) /\ log[2].h = log[1].h

-----------------------------------------------------------------------------
(* C13 *)

\* the lookup key an action of the plan is about
ActKey(a) ==
    IF a.op = "copy" THEN a.src.key
    ELSE IF a.op = "delete" THEN lower_key(a.dst_rel)
    ELSE lower_key(a.note[2])

\* C13: planning the same indexes with the same mode, policy and mirror flag
\* again gives the same action sequence; the main-pass actions are in
\* ascending key order, all deletes follow them, deletes on the right come
\* before deletes on the left and each group is in ascending key order.
C13_PlanDeterministicSorted ==
    Planned =>
      /\ actions = plan_sync(left_idx, right_idx, cfg.mode, cfg.conflict, cfg.mirror_delete)
      /\ \A m, n \in Indices :
            (m < n /\ actions[m].op # "delete" /\ actions[n].op # "delete")
            => \/ ActKey(actions[m]) = ActKey(actions[n])
               \/ StrLess(ActKey(actions[m]), ActKey(actions[n]))
      /\ \A m, n \in Indices :
            (m < n /\ actions[m].op = "delete")
            => /\ actions[n].op = "delete"
               /\ actions[m].target_side = "left" => actions[n].target_side = "left"
               /\ actions[m].target_side = actions[n].target_side
                  => StrLess(ActKey(actions[m]), ActKey(actions[n]))

C13_Witness ==
    /\ Planned /\ Len(actions) = 4
    /\ actions[1].op = "copy" /\ actions[2].op = "copy"
    /\ StrLess(actions[1].src.key, actions[2].src.key)
    /\ actions[1].src.rel # actions[1].src.key
    /\ actions[3].op = "delete" /\ actions[4].op = "delete"
    /\ actions[3].target_side = "right" /\ actions[4].target_side = "right"
    /\ StrLess(ActKey(actions[3]), ActKey(actions[4]))

-----------------------------------------------------------------------------
(* C14 *)

\* the actions of the plan about key k
ActionsOf(k) == {j \in Indices : ActKey(actions[j]) = k}

\* C14: under the newer policy a key present on both sides and not declared
\* equal gets one Copy whose source is the side with the greater
\* modification time, and a left-to-right Copy when the two times are equal.
C14_NewerWinsTieLeft ==
    (Planned /\ cfg.conflict = "newer")
    => \A k \in Both :
          HasAction(k) =>
            /\ Cardinality(ActionsOf(k)) = 1
            /\ \A j \in ActionsOf(k) :
                  /\ actions[j].op = "copy"
                  /\ left_idx[k].mtime > right_idx[k].mtime
                     => (actions[j].direction = "L2R" /\ actions[j].src = left_idx[k])
                  /\ left_idx[k].mtime < right_idx[k].mtime
                     => (actions[j].direction = "R2L" /\ actions[j].src = right_idx[k])
                  /\ left_idx[k].mtime = right_idx[k].mtime
                     => (actions[j].direction = "L2R" /\ actions[j].src = left_idx[k])

C14_Witness ==
    /\ Planned /\ cfg.conflict = "newer" /\ Len(actions) = 2
    /\ \E k \in Both :
          /\ left_idx[k].mtime = right_idx[k].mtime /\ left_idx[k].mtime > 0
          /\ left_idx[k].rel # right_idx[k].rel
          /\ \E j \in ActionsOf(k) : actions[j].direction = "L2R"
    /\ \E k \in Both :
          /\ left_idx[k].mtime < right_idx[k].mtime
          /\ \E j \in ActionsOf(k) : actions[j].direction = "R2L"

-----------------------------------------------------------------------------
(* C15 *)

\* the main-pass actions of the plan about key k
MainOf(k) == {j \in ActionsOf(k) : actions[j].op # "delete"}

\* C15: for every key present in exactly one index the main pass emits
\* exactly one action, a Copy of that record under its own relative path
\* toward the side that lacks the key, whatever the mode and the policy.
C15_OneSidedKeyIsCreated ==
    Planned =>
      /\ \A k \in DOMAIN left_idx \ DOMAIN right_idx :
            /\ Cardinality(MainOf(k)) = 1
            /\ \A j \in MainOf(k) :
                  actions[j] = Action("copy", left_idx[k], left_idx[k].rel, "L2R", None,
                                      actions[j].note)
      /\ \A k \in DOMAIN right_idx \ DOMAIN left_idx :
            /\ Cardinality(MainOf(k)) = 1
            /\ \A j \in MainOf(k) :
                  actions[j] = Action("copy", right_idx[k], right_idx[k].rel, "R2L", None,
                                      actions[j].note)

C15_Witness ==
    /\ Planned /\ cfg.mode = "hash" /\ cfg.conflict = "skip"
    /\ \E k \in DOMAIN left_idx \ DOMAIN right_idx :
          /\ left_idx[k].rel # k
          /\ \E j \in MainOf(k) : actions[j].dst_rel = left_idx[k].rel
    /\ \E k \in DOMAIN right_idx \ DOMAIN left_idx :
          \E j \in MainOf(k) : actions[j].direction = "R2L"

-----------------------------------------------------------------------------
(* C16 *)

\* the contents a complete write can leave: a content of the initial trees,
\* or the rewritten text of one (or of the empty text a failed read gives)
Whole(c) ==
    \E s \in Sides : \E n \in DOMAIN tree0[s] :
        \/ c = tree0[s][n].content
        \/ c = rewrite_m3u_simple(tree0[s][n].content)
        \/ c = rewrite_m3u_simple(<<>>)

\* C16: whenever the run is interrupted, every destination path on a local
\* backend holds its previous content (or is absent) or the complete new
\* content, never a partial file.
C16_LocalWritesCrashSafe ==
    \A s \in Sides :
        kind[s] = "local" => \A n \in DOMAIN tree[s] : Whole(tree[s][n].content)

-----------------------------------------------------------------------------
(* C17 *)

\* the playlist has been read, rewritten and written to the right tree
Rewritten ==
    /\ cfg.rewrite_playlist /\ ~cfg.dry_run /\ "read" \notin faults
    /\ Len(log) = 1 /\ log[1] = "copy_playlist"
    /\ NameP \in DOMAIN tree0["left"] /\ NameP \in DOMAIN tree["right"]

IsBlank(l) == \A j \in 1..Len(l) : l[j] = " "
IsComment(l) == \E j \in 1..Len(l) : l[j] = "#" /\ \A k \in 1..(j - 1) : l[k] = " "

\* o is the final path component of l once backslashes are forward slashes
FinalComponent(o, l) ==
    /\ Len(o) <= Len(l)
    /\ \A j \in 1..Len(o) :
          /\ o[j] # "/"
          /\ o[j] = (IF l[Len(l) - Len(o) + j] = "\\" THEN "/" ELSE l[Len(l) - Len(o) + j])
    /\ Len(o) < Len(l) => l[Len(l) - Len(o)] \in {"/", "\\"}

\* C17 as stated: every blank line and every comment line (first non-blank
\* character "#") is kept unchanged, every other line is replaced by its
\* final path component after backslashes became forward slashes, and the
\* lines keep their order.
C17_RewriteKeepsBlankAndComment ==
    Rewritten =>
      LET c == tree0["left"][NameP].content
          o == tree["right"][NameP].content
      IN  c # <<>> =>
            /\ Len(o) = Len(c)
            /\ \A j \in 1..Len(c) :
                  IF IsBlank(c[j]) \/ IsComment(c[j]) THEN o[j] = c[j]
                  ELSE FinalComponent(o[j], c[j])

\* C17 as amended: every empty line and every comment line is kept
\* unchanged; every other line is stripped of the blanks around it and then
\* replaced by its final path component after backslashes became forward
\* slashes (a line of blanks only becomes empty); the lines keep their order.
C17_RewriteStripsThenBasename ==
    Rewritten =>
      LET c == tree0["left"][NameP].content
          o == tree["right"][NameP].content
      IN  c # <<>> =>
            /\ Len(o) = Len(c)
            /\ \A j \in 1..Len(c) :
                  IF c[j] = <<>> \/ IsComment(c[j]) THEN o[j] = c[j]
                  ELSE FinalComponent(o[j], strip(c[j]))

C17_Witness ==
    /\ Rewritten
    /\ tree0["left"][NameP].content = <<<<"#", "s">>, <<"s", "\\", "s">>, <<"s", "/", "d">>>>
    /\ tree["right"][NameP].content = <<<<"#", "s">>, <<"s">>, <<"d">>>>

-----------------------------------------------------------------------------
(* C18 *)

\* C18: after an apply run that completed without error (policy newer, left
\* or right, no protection, no mirror delete), a second run over the
\* resulting trees performs no copy and no delete.
C18_SecondRunDoesNothing ==
    (/\ run = 2 /\ pc = "done" /\ faults = {} /\ ~cfg.dry_run
     /\ cfg.conflict \in {"newer", "left", "right"}
     /\ NoProtection /\ ~cfg.mirror_delete)
    => (copies = 0 /\ deletes = 0)


-----------------------------------------------------------------------------
(* C19 *)

\* C19: a stop request ends the run only between two actions: no copy that
\* has started is left unfinished by it, the Stop button included.
C19_StopOnlyAtActionBoundary ==
    pc = "killed" => log[Len(log)] = "stopped"


-----------------------------------------------------------------------------
(* C20 *)

\* the Copy action the loop is at, its source side and the counterpart
\* record of its source on the destination side
CopySide == IF actions[i].direction = "L2R" THEN "left" ELSE "right"
HasCounterpart == actions[i].src.key \in DOMAIN Idx(Other(CopySide))
Counterpart == Idx(Other(CopySide))[actions[i].src.key]
Unknown(fi) == fi.size < 0 \/ fi.mtime = 0
MustHash ==
    \/ cfg.mode = "hash"
    \/ cfg.mode = "quick" /\ (Unknown(actions[i].src) \/ Unknown(Counterpart))

\* the digest of record fi of a side, taken through the cache: the stored
\* one when the row matches the record, the digest of the file otherwise
HashKey(side, fi) == <<kind[side], Root(cfg, side), fi.rel>>
RowMatches(side, fi) ==
    /\ HashKey(side, fi) \in DOMAIN cache
    /\ cache[HashKey(side, fi)].size = fi.size
    /\ cache[HashKey(side, fi)].mtime - fi.mtime <= MTIME_TOLERANCE
    /\ fi.mtime - cache[HashKey(side, fi)].mtime <= MTIME_TOLERANCE
HashThroughCache(side, fi) ==
    IF RowMatches(side, fi) THEN cache[HashKey(side, fi)].sha1
    ELSE sha1sum_stream(tree[side][fi.abspath].content)
Hashable(side, fi) == RowMatches(side, fi) \/ fi.abspath \in DOMAIN tree[side]

\* the loop handles a Copy action whose files are there, meets no failure
\* and is not stopped by protection
CopyHandled ==
    /\ pc = "exec" /\ i <= Len(actions) /\ actions[i].op = "copy"
    /\ log' # log /\ faults' \subseteq {"stat"}
    /\ log'[Len(log')] # "skip_protected"
    /\ actions[i].src.abspath \in DOMAIN tree[CopySide]
    /\ HasCounterpart => /\ Hashable(CopySide, actions[i].src)
                         /\ Hashable(Other(CopySide), Counterpart)

\* C20: a Copy action not stopped by protection whose source has a
\* counterpart record, in hash mode or with an unknown size or time on
\* either record, has both files hashed through the cache and is skipped
\* exactly when the two digests are equal, and copied otherwise; without a
\* counterpart record the copy is made and nothing is hashed.
C20_HashDecidesCopy ==
    [][CopyHandled =>
          IF HasCounterpart
          THEN MustHash =>
                 /\ log'[Len(log')] = "skip_equal_hash"
                      <=> HashThroughCache(CopySide, actions[i].src)
                            = HashThroughCache(Other(CopySide), Counterpart)
                 /\ log'[Len(log')] # "skip_equal_hash" => IsCopy(log'[Len(log')])
                 /\ HashKey(CopySide, actions[i].src) \in DOMAIN cache'
                 /\ HashKey(Other(CopySide), Counterpart) \in DOMAIN cache'
          ELSE IsCopy(log'[Len(log')]) /\ cache' = cache]_vars

\* quick mode, an unknown size or time on one record: the two files were
\* hashed, found equal, and the copy was skipped
C20_Witness ==
    /\ pc = "exec" /\ i > 1 /\ cfg.mode = "quick" /\ faults = {"stat"}
    /\ log[i - 1] = "skip_equal_hash"
    /\ actions[i - 1].op = "copy"
    /\ cache # EmptyCache


-----------------------------------------------------------------------------
(* C21 *)

\* the loop handles an action and a hash fails for the first time, while
\* the transfer itself meets no failure
HashFailsInStep ==
    /\ pc = "exec" /\ log' # log
    /\ "hash" \notin faults /\ "hash" \in faults' /\ "io" \notin faults'

\* C21: a hash that fails in the equality pre-check of a Copy action does
\* not abort the run: the copy is made (reported, in a dry run) and counted,
\* and the loop moves to the next action.
C21_HashFailureIsInconclusive ==
    [][HashFailsInStep =>
          /\ actions[i].op = "copy"
          /\ IsCopy(log'[Len(log')])
          /\ copies' = copies + 1
          /\ pc' = "exec" /\ i' = i + 1]_vars

\* a hash failed while a plan of two actions was executed: the copy was
\* made, both actions were handled and the run went on
C21_Witness ==
    /\ faults = {"hash"} /\ Len(actions) >= 2 /\ Len(log) = 2
    /\ IsCopy(log[1]) /\ log[2] # "raised"
    /\ tree # tree0


-----------------------------------------------------------------------------
(* C22 *)

\* key k, present on both sides, is declared equal by the planner
DeclaredEqual(k) == cfg.mode = "quick" /\ QuickEqual(left_idx[k], right_idx[k])

\* C22: a key present on both sides and not declared equal has exactly one
\* action in the plan under left, right and skip: the Copy of the left
\* record to the right under left, the Copy of the right record to the left
\* under right, whatever the sizes and times, and a Skip (no Copy) under skip.
C22_SidedPoliciesAndSkip ==
    (Planned /\ cfg.conflict \in {"left", "right", "skip"})
    => \A k \in Both :
          ~DeclaredEqual(k) =>
            /\ Cardinality(ActionsOf(k)) = 1
            /\ \A j \in ActionsOf(k) :
                  /\ cfg.conflict = "left"
                     => actions[j] = Action("copy", left_idx[k], left_idx[k].rel, "L2R",
                                            None, actions[j].note)
                  /\ cfg.conflict = "right"
                     => actions[j] = Action("copy", right_idx[k], right_idx[k].rel, "R2L",
                                            None, actions[j].note)
                  /\ cfg.conflict = "skip" => actions[j].op = "skip"

\* the left policy copies the left record although the right one is newer
C22_Witness ==
    /\ Planned /\ cfg.conflict = "left"
    /\ \E k \in Both :
          /\ ~DeclaredEqual(k)
          /\ left_idx[k].mtime < right_idx[k].mtime
          /\ left_idx[k].mtime > 0
          /\ \E j \in ActionsOf(k) : actions[j].direction = "L2R"


-----------------------------------------------------------------------------
(* C23 *)

\* the candidate paths of the remote listing of side s: the paths under the
\* root that pass its filter
Candidates(s) ==
    {n \in DOMAIN tree0[s] :
        want_this(n, cfg.exts, cfg.excludes, cfg.include_all, cfg.skip_hidden)}

\* C23: when the batch stat of a remote listing fails the listing still
\* returns: one record for every candidate path, each with size -1 and
\* modification time 0, and no other record.
C23_StatFailureMarksEveryRecord ==
    (Planned /\ "stat" \in faults)
    => \A s \in Sides :
          kind[s] = "adb" =>
            /\ \A n \in Candidates(s) :
                  /\ lower_key(n) \in DOMAIN Idx(s)
                  /\ Idx(s)[lower_key(n)] = FileInfo(n, -1, 0)
            /\ Cardinality(DOMAIN Idx(s)) = Cardinality(Candidates(s))

\* the batch stat failed for a remote tree of three files, two of them
\* candidates
C23_Witness ==
    /\ Planned /\ "stat" \in faults
    /\ \E s \in Sides :
          /\ kind[s] = "adb"
          /\ Cardinality(DOMAIN tree0[s]) = 3
          /\ Cardinality(Candidates(s)) = 2
          /\ \A k \in DOMAIN Idx(s) : Idx(s)[k].size = -1 /\ Idx(s)[k].mtime = 0
          /\ Cardinality(DOMAIN Idx(s)) = 2


-----------------------------------------------------------------------------
(* C24 *)

\* path n is taken out by an exclude pattern or by the suppression of hidden
\* entries, as a file or through one of its directories
Removed(n) ==
    \/ ~walk_enters(n, cfg.excludes, cfg.skip_hidden)
    \/ cfg.skip_hidden /\ hidden(basename(n))
    \/ excluded(n, basename(n), cfg.excludes)

\* C24: a file whose extension is in the configured playlist extension set
\* is in the index of its side, on either backend, with or without --all,
\* unless an exclude pattern or the suppression of hidden entries removes it.
C24_PlaylistsAlwaysIndexed ==
    Planned =>
      \A s \in Sides : \A n \in DOMAIN tree0[s] :
          (is_playlist(n, cfg.playlist_exts) /\ ~Removed(n))
          => lower_key(n) \in DOMAIN Idx(s)


-----------------------------------------------------------------------------
(* C25 *)

Ready(e) == {e.ready[j] : j \in 1..Len(e.ready)}

-----------------------------------------------------------------------------
(* C26 *)

\* the cache key of the record a call was made for
CallKey(e) == <<kind["left"], cfg.left_root, e.fi.rel>>

\* every call leaves the rows of the other keys as they were and removes
\* none, and after a call that stored a digest a lookup with the size and
\* the time of that call returns that digest
PutsAreUpserts ==
    \A j \in 1..Len(log) :
        LET e == log[j]
        IN  /\ DOMAIN e.before \subseteq DOMAIN e.after
            /\ \A k \in DOMAIN e.before : k # CallKey(e) => e.after[k] = e.before[k]
            /\ e.after # e.before
               => cache_get(e.after, kind["left"], cfg.left_root, e.fi.rel,
                            e.fi.size, e.fi.mtime) = [hit |-> TRUE, sha1 |-> e.h]

\* C26: the cache holds one row per (backend, root, rel); a put replaces the
\* row, so that a lookup with the size and time of the last put returns its
\* digest; no row is ever removed; and a hash computation that fails leaves
\* the cache as it was.
C26_CacheUpsertOnlyOnSuccess ==
    /\ PutsAreUpserts
    /\ \A j \in 1..Len(log) : log[j].reads # "ok" => log[j].after = log[j].before


-----------------------------------------------------------------------------
(* C27 *)

\* the loop skips the Copy action it is at as equal by hash, in a run where
\* no file has changed since the indexing and no read has failed
SkipsByHash ==
    /\ pc = "exec" /\ i <= Len(actions) /\ actions[i].op = "copy"
    /\ tree = tree0 /\ faults' \subseteq {"stat"}
    /\ Len(log') = Len(log) + 1 /\ log'[Len(log')] = "skip_equal_hash"

\* C27: in a run that starts with an empty cache and in which no file changes
\* after indexing, a copy is skipped as equal by hash only if the source file
\* and its counterpart on the other side hold the same content, for every
\* pair of backends (two devices with one root path included) and for
\* records with the unknown marker.
C27_HashSkipMeansSameContent ==
    [][SkipsByHash =>
          tree[CopySide][actions[i].src.abspath].content
            = tree[Other(CopySide)][Counterpart.abspath].content]_vars

\* C28: the kill armed by a click on Stop only ever kills the engine process
\* the click was for: no process launched after the click is killed by it
C28_KillOnlyStoppedProcess ==
    \A k \in 1..Len(log) : log[k].ev = "kill" => log[k].pid = log[k].for

\* what the window did on a click on Preview or Run
LaunchAttempts == {"launch", "busy", "missing", "engine_missing"}

\* C29: the window runs at most one engine process at a time: the system
\* runs no engine process but the tracked one, a click on Preview or Run is
\* refused as busy exactly when a process is tracked, the Stop button is
\* enabled exactly while a process is tracked, and when `finished` has been
\* handled nothing is tracked and a launch with both endpoints and the
\* engine script in place is accepted
C29_OneProcessAtATime ==
    /\ Cardinality(gui.alive) <= 1
    /\ gui.alive \subseteq {gui.proc}
    /\ gui.btnStop = (gui.proc # 0)
    /\ \A k \in 1..Len(log) :
         /\ log[k].ev \in LaunchAttempts => ((log[k].ev = "busy") = (log[k].tracked # 0))
         /\ log[k].ev = "launch" => log[k].pid # log[k].tracked
    /\ (log # <<>> /\ log[Len(log)].ev = "finished") =>
         /\ gui.proc = 0
         /\ ~gui.btnStop
         /\ \A dry_run \in BOOLEAN, starts \in BOOLEAN :
              launch(gui, dry_run, TRUE, TRUE, starts).ev = "launch"

\* a click was refused while process 1 ran; process 1 finished, and the next
\* click launched process 2, the only one running
C29_Witness ==
    /\ \E k \in 1..Len(log) : log[k].ev = "busy" /\ log[k].tracked = 1
    /\ \E k \in 1..Len(log) : log[k].ev = "finished" /\ log[k].pid = 1
    /\ gui.proc = 2
    /\ gui.alive = {2}
    /\ gui.btnStop

-----------------------------------------------------------------------------
(* C30 *)

\* C30: the local and the remote backend apply the same filter: with the
\* same file paths under a local root and under a remote root and the same
\* settings, the two indexes have the same keys, files inside hidden or
\* excluded directories included.
C30_BackendsFilterAlike ==
    (Planned /\ kind["left"] # kind["right"]
             /\ DOMAIN tree0["left"] = DOMAIN tree0["right"])
    => DOMAIN Idx("left") = DOMAIN Idx("right")

====
